---- MODULE Spec2Model ----
(***************************************************************************)
(* Model of the candlestick chart widget of tui-candlestick-chart:         *)
(* CandleStickChart::render (src/src/candlestick_chart.rs) and the         *)
(* caller-owned CandleStickChartState it reads and publishes into.         *)
(*                                                                         *)
(* Prices are OrderedFloat<f64> in the source; the model uses integers,    *)
(* which keep the order and the min/max the render uses.  Timestamps are   *)
(* i64 milliseconds.                                                       *)
(***************************************************************************)
EXTENDS Integers, Sequences, FiniteSets, TLC

VARIABLES
    chart,      \* the CandleStickChart the application builds for every frame
    state,      \* CandleStickChartState: cursor_timestamp and published info
    call,       \* the render of the current frame: <<>> before it, <<[area, cursor]>> after
    out,        \* what that render computed (outcome, processed candles, layout, y axis)
    written,    \* grid cells that render wrote: cell <<x, y>> -> glyph tag
    panned      \* history: an earlier frame was rendered with a pinned cursor

vars == <<chart, state, call, out, written, panned>>

-----------------------------------------------------------------------------
(* Bounds of the model *)

MaxCandles == 3     \* longest candle series
MaxCols == 5        \* widest data area, in columns
Rows == 2           \* rows of the data area of a viewport that is tall enough
AreaX == 1          \* left column of the viewport in the buffer
AreaY == 1          \* top row of the viewport in the buffer

(* Program constants *)

OneSecond == 1          \* Interval::OneSecond as i64 (1000 ms per step)
DefaultPrecision == 3   \* Numeric::default(): three decimals
LabelField == 10        \* width of the label field of the y axis
XAxisRows == 2          \* ruler row and label row of the x axis

-----------------------------------------------------------------------------
(* Small helpers *)

Max2(a, b) == IF a >= b THEN a ELSE b
Min2(a, b) == IF a <= b THEN a ELSE b

SetMax(S) == CHOOSE m \in S : \A e \in S : e <= m
SetMin(S) == CHOOSE m \in S : \A e \in S : m <= e

Range(s) == {s[i] : i \in 1..Len(s)}

None == <<>>
Some(v) == <<v>>

EmptyGrid == [cell \in {} |-> 0]

\* later writes replace earlier ones, as successive buf.set_string / cell_mut do
Over(f, g) ==
    [cell \in (DOMAIN f) \cup (DOMAIN g) |-> IF cell \in DOMAIN g THEN g[cell] ELSE f[cell]]

RECURSIVE SortedSeq(_)
SortedSeq(S) ==
    IF S = {} THEN <<>> ELSE LET m == SetMin(S) IN <<m>> \o SortedSeq(S \ {m})

-----------------------------------------------------------------------------
(* Candle (src/candle.rs is not part of the sources; modelled from the spec) *)

CandleValid(c) ==
    /\ c.low <= Min2(c.open, c.close)
    /\ Max2(c.open, c.close) <= c.high

\* Candle::new: a one-element sequence (Ok) or the empty one (Err)
CandleNew(ts, o, h, l, c) ==
    LET cd == [timestamp |-> ts, open |-> o, high |-> h, low |-> l, close |-> c]
    IN IF CandleValid(cd) THEN Some(cd) ELSE None

\* Numeric (src/y_axis.rs is not part of the sources)
NumericDefault == [precision |-> DefaultPrecision]

NumDigits(v) == IF v < 10 THEN 1 ELSE IF v < 100 THEN 2 ELSE 3

\* YAxis::estimated_width: label field plus the " |- " ruler, as the tests draw it
EstimatedWidth(numeric, lo, hi) ==
    Max2(LabelField, Max2(NumDigits(lo), NumDigits(hi)) + 1 + numeric.precision) + 3

\* YAxis::new
YAxisNew(numeric, height, y_min, y_max) ==
    [numeric |-> numeric, height |-> height, min |-> y_min, max |-> y_max]

-----------------------------------------------------------------------------
(* CandleStickChart: the builder (candlestick_chart.rs 53-123) *)

ChartFitModes == {"Fixed", "Fit"}

New(interval) ==
    [interval |-> interval, candles |-> <<>>, numeric |-> NumericDefault,
     show_y_axis |-> TRUE, show_x_axis |-> TRUE, fit_mode |-> "Fixed"]

WithCandles(ch, candles) == [ch EXCEPT !.candles = candles]
WithNumeric(ch, numeric) == [ch EXCEPT !.numeric = numeric]
WithShowYAxis(ch, show) == [ch EXCEPT !.show_y_axis = show]
WithShowXAxis(ch, show) == [ch EXCEPT !.show_x_axis = show]
WithFitMode(ch, mode) == [ch EXCEPT !.fit_mode = mode]

-----------------------------------------------------------------------------
(* CandleStickChart::render, step by step (candlestick_chart.rs 159-398) *)

IntervalMs(ch) == ch.interval * 1000

GlobalMin(ch) == SetMin({c.low : c \in Range(ch.candles)})
GlobalMax(ch) == SetMax({c.high : c \in Range(ch.candles)})

YAxisWidth(ch) ==
    IF ch.show_y_axis
    THEN EstimatedWidth(ch.numeric, GlobalMin(ch), GlobalMax(ch))
    ELSE 0

XAxisHeight(ch) == IF ch.show_x_axis THEN 3 ELSE 0

\* mutant: the height test lets a viewport through that has no data row
GuardExitLoose(ch, area) ==
    \/ ch.candles = <<>>
    \/ area.width <= YAxisWidth(ch)
    \/ area.height < XAxisHeight(ch)

GuardExit(ch, area) ==
    \/ ch.candles = <<>>
    \/ area.width <= YAxisWidth(ch)
    \/ area.height <= XAxisHeight(ch)

ChartWidth(ch, area) == area.width - YAxisWidth(ch)

FirstTimestamp(ch) == ch.candles[1].timestamp
LastTimestamp(ch) == ch.candles[Len(ch.candles)].timestamp

Placeholder(ts) == CandleNew(ts, 0, 0, 0, 0)[1]

\* the series with chart_width - 1 zero candles before and after it
PaddedCandles(ch, area) ==
    LET cw == ChartWidth(ch, area)
        ms == IntervalMs(ch)
    IN [j \in 1..(cw - 1) |-> Placeholder(FirstTimestamp(ch) - (cw - j) * ms)]
       \o ch.candles
       \o [i \in 1..(cw - 1) |-> Placeholder(LastTimestamp(ch) + i * ms)]

\* mutant: an unpinned window resumes from the latest timestamp published before
ChartEndTimestampSticky(ch, st) ==
    IF st.cursor_timestamp # None THEN st.cursor_timestamp[1]
    ELSE IF st.info # None THEN st.info[1].latest_timestamp
    ELSE LastTimestamp(ch)

ChartEndTimestamp(ch, st) ==
    IF st.cursor_timestamp = None THEN LastTimestamp(ch) ELSE st.cursor_timestamp[1]

ChartStartTimestamp(ch, area, st) ==
    ChartEndTimestamp(ch, st) - IntervalMs(ch) * (ChartWidth(ch, area) - 1)

InWindow(c, lo, hi) == c.timestamp >= lo /\ c.timestamp <= hi

RenderedCandles(ch, area, st) ==
    LET lo == ChartStartTimestamp(ch, area, st)
        hi == ChartEndTimestamp(ch, st)
    IN SelectSeq(PaddedCandles(ch, area), LAMBDA c : InWindow(c, lo, hi))

\* the rendered candles that are real data (used for y_min/y_max and for drawing)
DataCandles(ch, rendered) ==
    SelectSeq(rendered,
              LAMBDA c : InWindow(c, FirstTimestamp(ch), LastTimestamp(ch)))

\* CandleStikcChartInfo::new (src/candlestick_chart_state.rs is not part of the sources)
InfoNew(earliest, latest, interval, last_data, past_start) ==
    [earliest_timestamp |-> earliest, latest_timestamp |-> latest, interval |-> interval,
     last_data_timestamp |-> last_data, scrolled_past_start |-> past_start]

\* mutant: the earliest rendered column is published as the earliest timestamp
PublishedInfoOfWindow(ch, area, rendered) ==
    LET padded == PaddedCandles(ch, area)
    IN InfoNew(rendered[1].timestamp,
               padded[Len(padded)].timestamp,
               ch.interval,
               LastTimestamp(ch),
               rendered[1].timestamp < FirstTimestamp(ch))

\* the arguments render gives to state.set_info
PublishedInfo(ch, area, rendered) ==
    LET padded == PaddedCandles(ch, area)
    IN InfoNew(padded[ChartWidth(ch, area)].timestamp,
               padded[Len(padded)].timestamp,
               ch.interval,
               LastTimestamp(ch),
               rendered[1].timestamp < FirstTimestamp(ch))

-----------------------------------------------------------------------------
(* Fit-mode layout (candlestick_chart.rs 275-338) *)

MergeRatio(n, cw) == (n + cw - 1) \div cw

\* data.chunks(size): consecutive chunks, the last one possibly shorter
Chunks(data, size) ==
    [g \in 1..((Len(data) + size - 1) \div size) |->
        SubSeq(data, (g - 1) * size + 1, Min2(g * size, Len(data)))]

\* mutant: the merged high is the first member's high
MergedHighOfFirst(chunk) == chunk[1].high

MergedHigh(chunk) == SetMax({c.high : c \in Range(chunk)})
MergedLow(chunk) == SetMin({c.low : c \in Range(chunk)})

\* mutant: a chunk is merged from its first two members only
MergeChunkOfFirstTwo(chunk) ==
    LET head == SubSeq(chunk, 1, Min2(2, Len(chunk)))
    IN CandleNew(head[1].timestamp, head[1].open, MergedHigh(head), MergedLow(head),
                 head[Len(head)].close)

\* Candle::new(first timestamp, first open, max high, min low, last close)
MergeChunk(chunk) ==
    CandleNew(chunk[1].timestamp, chunk[1].open, MergedHigh(chunk), MergedLow(chunk),
              chunk[Len(chunk)].close)

\* merged_candles: one Candle::new per chunk of merge_ratio candles, in order
MergedCandles(data, merge_ratio) ==
    [g \in DOMAIN Chunks(data, merge_ratio) |-> MergeChunk(Chunks(data, merge_ratio)[g])]

BaseWidth(cw, n) == Max2(1, cw \div n)

\* chart_width.saturating_sub(used_width)
ExtraSpaces(cw, n) == Max2(0, cw - BaseWidth(cw, n) * n)

\* mutant: the position is rounded to the nearest gap instead of truncated
SpacePositionRounded(i, gaps, extra) == ((2 * i + 1) * gaps + extra) \div (2 * extra)

\* ((i as f64 + 0.5) * gaps as f64 / extra_spaces as f64) as usize
SpacePosition(i, gaps, extra) == ((2 * i + 1) * gaps) \div (2 * extra)

\* space_positions, indexed from 1: TRUE where a one-column space follows the candle
SpacePositions(n, extra) ==
    LET gaps == n - 1
        marked == IF extra > 0 /\ n > 1
                  THEN {SpacePosition(i, gaps, extra) : i \in {k \in 0..(extra - 1) : k < gaps}}
                  ELSE {}
    IN [p \in 1..n |-> (p - 1) \in marked /\ (p - 1) < n - 1]

\* (processed_candles, candle_width, extra_spaces); failed is the unwrap of an Err
Layout(ch, area, data) ==
    LET cw == ChartWidth(ch, area)
        n == Len(data)
        plain == [kind |-> "fixed", processed |-> data, candle_width |-> 1,
                  extra_spaces |-> 0, failed |-> FALSE]
    IN IF ch.fit_mode = "Fixed" THEN plain
       ELSE IF n = 0 THEN [plain EXCEPT !.kind = "fit_empty"]
       ELSE IF n > cw THEN
            LET merged == MergedCandles(data, MergeRatio(n, cw))
                bad == \E g \in DOMAIN merged : merged[g] = None
            IN [kind |-> "squash",
                processed |-> IF bad THEN <<>> ELSE [g \in DOMAIN merged |-> merged[g][1]],
                candle_width |-> 1, extra_spaces |-> 0, failed |-> bad]
       ELSE [kind |-> "stretch", processed |-> data, candle_width |-> BaseWidth(cw, n),
             extra_spaces |-> ExtraSpaces(cw, n), failed |-> FALSE]

-----------------------------------------------------------------------------
(* Writing into the buffer (candlestick_chart.rs 241-272, 340-397) *)

\* the caller's buffer: it holds the viewport and one more column and row
BufferArea(area) ==
    [x |-> 0, y |-> 0, width |-> area.x + area.width + 1, height |-> area.y + area.height + 1]

InRect(cell, r) ==
    /\ cell[1] >= r.x /\ cell[1] < r.x + r.width
    /\ cell[2] >= r.y /\ cell[2] < r.y + r.height

Glyph(kind, idx, row, dx) == [kind |-> kind, idx |-> idx, row |-> row, dx |-> dx]

\* Buffer::set_string(x, y, string of len cells): clipped to the buffer, not to the viewport
SetString(area, x, y, len, kind) ==
    LET cells == {cell \in {<<x + i, y>> : i \in 0..(len - 1)} : InRect(cell, BufferArea(area))}
    IN [cell \in cells |-> Glyph(kind, 0, y - area.y, cell[1] - x)]

\* y_axis.render(): one label string per row of the axis, as wide as the gutter of its numeric
YAxisRenderRows(y_axis) == y_axis.height
YAxisLabelWidth(y_axis) == EstimatedWidth(y_axis.numeric, y_axis.min, y_axis.max)

\* candle.render(&y_axis) and render_stretched: one glyph row per row of the axis
CandleRenderRows(y_axis) == y_axis.height

RECURSIVE YAxisCells(_, _, _)
YAxisCells(area, y_axis, rows) ==
    IF rows = 0 THEN EmptyGrid
    ELSE Over(YAxisCells(area, y_axis, rows - 1),
              SetString(area, area.x, (rows - 1) + area.y, YAxisLabelWidth(y_axis), "y_axis"))

CornerCells(ch, area) ==
    SetString(area, area.x + YAxisWidth(ch) - 2, area.y + area.height - 3, 3, "corner")

RECURSIVE XAxisCells(_, _, _)
XAxisCells(ch, area, rows) ==
    IF rows = 0 THEN EmptyGrid
    ELSE Over(XAxisCells(ch, area, rows - 1),
              SetString(area, area.x + YAxisWidth(ch),
                        area.y + area.height - 3 + (rows - 1),
                        ChartWidth(ch, area), "x_axis"))

\* mutant: only buf.cell_mut guards the write, the viewport's right edge does not
CellWritableAnywhere(area, cell) == InRect(cell, BufferArea(area))

\* the guard of both compositing loops: cell_x < area.x + area.width, and buf.cell_mut is Some
CellWritable(area, cell) ==
    cell[1] < area.x + area.width /\ InRect(cell, BufferArea(area))

\* current_x_offset when the candle at index idx (from 1) is drawn
RECURSIVE XOffset(_, _, _)
XOffset(idx, candle_width, space_positions) ==
    IF idx = 1 THEN 0
    ELSE XOffset(idx - 1, candle_width, space_positions) + candle_width
         + (IF space_positions[idx - 1] THEN 1 ELSE 0)

\* the cells one candle writes
OneCandleCells(ch, area, lay, sp, rows, idx) ==
    LET normal == lay.candle_width = 1 /\ lay.extra_spaces = 0
        x0 == IF normal THEN (idx - 1) ELSE XOffset(idx, lay.candle_width, sp)
        w == IF normal THEN 1 ELSE lay.candle_width
        cells == {cell \in {<<x0 + dx + YAxisWidth(ch) + area.x, y + area.y>> :
                                dx \in 0..(w - 1), y \in 0..(rows - 1)} :
                    CellWritable(area, cell)}
    IN [cell \in cells |->
           Glyph(IF normal THEN "candle" ELSE "stretched", idx, cell[2] - area.y,
                 cell[1] - (x0 + YAxisWidth(ch) + area.x))]

RECURSIVE CandleCells(_, _, _, _, _, _)
CandleCells(ch, area, lay, sp, rows, n) ==
    IF n = 0 THEN EmptyGrid
    ELSE Over(CandleCells(ch, area, lay, sp, rows, n - 1),
              OneCandleCells(ch, area, lay, sp, rows, n))

-----------------------------------------------------------------------------
(* The whole render call: what it leaves in the state, in the buffer, and how it ends *)

NoOut ==
    [outcome |-> "none", chart_end |-> None, rendered |-> <<>>, layout |-> "none",
     processed |-> <<>>, candle_width |-> 0, extra_spaces |-> 0, space_positions |-> <<>>,
     y_axis |-> None]

RenderResult(ch, area, st) ==
    IF GuardExit(ch, area)
    THEN [info |-> st.info, written |-> EmptyGrid, out |-> [NoOut EXCEPT !.outcome = "guard"]]
    ELSE
    LET rendered == RenderedCandles(ch, area, st)
        seen == [NoOut EXCEPT !.chart_end = Some(ChartEndTimestamp(ch, st)),
                              !.rendered = rendered]
    IN
    \* rendered_candles.first().unwrap() while the arguments of set_info are built
    IF rendered = <<>>
    THEN [info |-> st.info, written |-> EmptyGrid, out |-> [seen EXCEPT !.outcome = "panic"]]
    ELSE
    LET info == Some(PublishedInfo(ch, area, rendered))
        data == DataCandles(ch, rendered)
    IN
    \* y_min: .min().unwrap() over the real candles of the window
    IF data = <<>>
    THEN [info |-> info, written |-> EmptyGrid, out |-> [seen EXCEPT !.outcome = "panic"]]
    ELSE
    LET y_min == SetMin({c.low : c \in Range(data)})
        y_max == SetMax({c.high : c \in Range(data)})
        y_axis == YAxisNew(NumericDefault, area.height - XAxisHeight(ch), y_min, y_max)
        y_cells == IF ch.show_y_axis
                   THEN YAxisCells(area, y_axis, YAxisRenderRows(y_axis))
                   ELSE EmptyGrid
        x_cells == IF ch.show_x_axis
                   THEN Over(IF ch.show_y_axis THEN CornerCells(ch, area) ELSE EmptyGrid,
                             XAxisCells(ch, area, XAxisRows))
                   ELSE EmptyGrid
        axes == Over(y_cells, x_cells)
        lay == Layout(ch, area, data)
        sp == SpacePositions(Len(lay.processed), lay.extra_spaces)
        drawn == [seen EXCEPT !.layout = lay.kind, !.processed = lay.processed,
                              !.candle_width = lay.candle_width,
                              !.extra_spaces = lay.extra_spaces,
                              !.space_positions = sp, !.y_axis = Some(y_axis)]
    IN
    \* Candle::new(..).unwrap() of a merged candle
    IF lay.failed
    THEN [info |-> info, written |-> axes, out |-> [drawn EXCEPT !.outcome = "panic"]]
    ELSE [info |-> info,
          written |-> Over(axes, CandleCells(ch, area, lay, sp, CandleRenderRows(y_axis),
                                             Len(lay.processed))),
          out |-> [drawn EXCEPT !.outcome = "drawn"]]

-----------------------------------------------------------------------------------------------------------------------------------------------------
(* CandleStickChartState (src/candlestick_chart_state.rs is not part of the sources) *)

StateDefault == [cursor_timestamp |-> None, info |-> None]

SetInfo(st, info) == [st EXCEPT !.info = info]

-----------------------------------------------------------------------------
(* The inputs the model draws from *)

WidePrecision == 9

\* timestamps lie half an interval apart at the closest, so that a window of
\* chart_width intervals can hold more real candles than it has columns; the last
\* index leaves whole intervals without a candle
HalfStep == (OneSecond * 1000) \div 2
TsIndex == (0..(MaxCandles - 1)) \cup {2 * (MaxCandles - 1)}

PricePatterns == {"rising", "falling"}

\* the k-th candle of a series: bullish and climbing, or bearish and sinking
PatternCandle(pattern, ts, k) ==
    LET m == MaxCandles + 1 - k
    IN IF pattern = "rising"
       THEN CandleNew(ts, k, k + 2, k - 1, k + 1)[1]
       ELSE CandleNew(ts, m + 1, m + 2, m - 1, m)[1]

SeriesOf(S, pattern) ==
    LET idx == SortedSeq(S)
    IN [k \in 1..Len(idx) |-> PatternCandle(pattern, idx[k] * HalfStep, k)]

AllSeries ==
    {<<>>} \cup
    {SeriesOf(S, p) : S \in {T \in SUBSET TsIndex : T # {} /\ Cardinality(T) <= MaxCandles},
                      p \in PricePatterns}

Configure(candles, numeric, show_y, show_x, mode) ==
    WithFitMode(WithShowXAxis(WithShowYAxis(WithNumeric(WithCandles(New(OneSecond), candles),
        numeric), show_y), show_x), mode)

\* both axes, either axis hidden, and a numeric that widens the gutter
AxisConfigs ==
    {<<NumericDefault, TRUE, TRUE>>, <<NumericDefault, FALSE, TRUE>>,
     <<NumericDefault, TRUE, FALSE>>, <<[precision |-> WidePrecision], TRUE, TRUE>>}

Charts ==
    {Configure(s, a[1], a[2], a[3], m) : s \in AllSeries, a \in AxisConfigs, m \in ChartFitModes}

Rect(x, y, w, h) == [x |-> x, y |-> y, width |-> w, height |-> h]

\* a viewport with cols data columns and rows data rows next to what the axes reserve;
\* the reserved width of an empty series is never computed, the default gutter stands in
AreaFor(ch, cols, rows) ==
    Rect(AreaX, AreaY,
         (IF ch.candles = <<>> THEN (IF ch.show_y_axis THEN LabelField + 3 ELSE 0)
          ELSE YAxisWidth(ch)) + cols,
         XAxisHeight(ch) + rows)

\* viewports that leave 0..MaxCols data columns, and one that leaves no data row
Areas(ch) ==
    {AreaFor(ch, cols, Rows) : cols \in 0..MaxCols} \cup {AreaFor(ch, 1, 0)}

CursorTimestamps == {i * OneSecond * 1000 : i \in (-1)..1}
Cursors == {None} \cup {Some(t) : t \in CursorTimestamps}

-----------------------------------------------------------------------------
(* Actions *)

Init ==
    /\ chart \in Charts
    /\ state = StateDefault
    /\ call = None
    /\ out = NoOut
    /\ written = EmptyGrid
    /\ panned = FALSE

\* between two frames the caller pans (Some), returns to the live edge (None) or
\* leaves the cursor where it is; the next frame starts from a cleared buffer
SetCursorTimestamp(cursor) ==
    /\ out.outcome # "panic"
    /\ state' = [state EXCEPT !.cursor_timestamp = cursor]
    /\ call' = None
    /\ out' = NoOut
    /\ written' = EmptyGrid
    /\ panned' = (panned \/ (call # None /\ call[1].cursor # None))
    /\ UNCHANGED chart

\* StatefulWidget::render(self, area, buf, state), once per frame; a panic ends the program
Render(area) ==
    /\ call = None
    /\ \E r \in {RenderResult(chart, area, state)} :
          /\ state' = SetInfo(state, r.info)
          /\ call' = Some([area |-> area, cursor |-> state.cursor_timestamp])
          /\ out' = r.out
          /\ written' = r.written
    /\ UNCHANGED <<chart, panned>>

Next ==
    \/ \E cursor \in Cursors : SetCursorTimestamp(cursor)
    \/ \E area \in Areas(chart) : Render(area)

Spec == Init /\ [][Next]_vars

-----------------------------------------------------------------------------
(* What the claims speak about, stated from the inputs of the frame's render *)

Rendered == call # None
TheArea == call[1].area
TheCursor == call[1].cursor

RealTimestamps == {chart.candles[k].timestamp : k \in 1..Len(chart.candles)}
FirstReal == chart.candles[1].timestamp
LastReal == chart.candles[Len(chart.candles)].timestamp

\* width of the data area and the window the spec describes
DataCols == TheArea.width - YAxisWidth(chart)
WindowEnd == IF TheCursor = None THEN LastReal ELSE TheCursor[1]
WindowStart == WindowEnd - chart.interval * 1000 * (DataCols - 1)

\* the real candles of the window, in series order
WindowReal ==
    SelectSeq(chart.candles, LAMBDA c : c.timestamp >= WindowStart /\ c.timestamp <= WindowEnd)

DataLeft == TheArea.x + YAxisWidth(chart)

\* the cell of data column col (from 0) and data row row (from 0)
DataCell(col, row) == <<DataLeft + col, TheArea.y + row>>

CandleKinds == {"candle", "stretched"}

\* the data columns in which some cell holds a candle glyph
CandleColumns ==
    {cell[1] - DataLeft : cell \in {c \in DOMAIN written : written[c].kind \in CandleKinds}}

-----------------------------------------------------------------------------
\* the guard as the spec words it
ClaimGuard(ch, area) ==
    \/ ch.candles = <<>>
    \/ area.width <= YAxisWidth(ch)
    \/ area.height <= (IF ch.show_x_axis THEN 3 ELSE 0)

\* C1: a render that meets the guard (empty series, viewport no wider than the
\* y gutter, or no taller than the x axis: 3 rows when shown, 0 otherwise)
\* writes no cell and leaves the caller's state (cursor and info) as it was.
C1_GuardExitIsNoOp ==
    [][(call = None /\ call' # None /\ ClaimGuard(chart, call'[1].area))
        => (written' = EmptyGrid /\ state' = state /\ out'.outcome = "guard")]_vars

\* a guard exit taken after an earlier render had published info
C1_Witness ==
    /\ Rendered
    /\ ClaimGuard(chart, TheArea)
    /\ chart.candles # <<>>
    /\ state.info # None

-----------------------------------------------------------------------------
\* the real candles of the window lie whole intervals after its start
OnWindowGrid ==
    \A k \in 1..Len(WindowReal) :
        (WindowReal[k].timestamp - WindowStart) % (chart.interval * 1000) = 0

\* C2 (as claimed): in Fixed mode every real candle of the window [start, end] is
\* drawn in data column (timestamp - start) / interval, so the newest candle of
\* the live view is in the rightmost column and a shorter series is right-aligned.
\* Stated for series whose window timestamps lie on the interval grid of the window.
C2_FixedColumnByTimestamp ==
    (Rendered /\ out.outcome = "drawn" /\ chart.fit_mode = "Fixed" /\ OnWindowGrid)
    => \A k \in 1..Len(WindowReal) :
          LET col == (WindowReal[k].timestamp - WindowStart) \div (chart.interval * 1000)
              cell == DataCell(col, 0)
          IN /\ cell \in DOMAIN written
             /\ written[cell].kind = "candle"
             /\ out.processed[written[cell].idx] = WindowReal[k]

-----------------------------------------------------------------------------
\* C3 (as claimed): render is total; it draws or takes the guard exit and never
\* fails on an unwrap of an empty rendered set or of an empty visible price range.
C3_RenderIsTotal ==
    Rendered => out.outcome \in {"guard", "drawn"}

-----------------------------------------------------------------------------
\* a state that never published anything
FreshState(cursor) == [cursor_timestamp |-> cursor, info |-> None]

\* C4: what a render writes and publishes depends only on the series, the
\* viewport, the cursor and the configuration: it is what the same render gives
\* from a state that never published anything, and with the cursor cleared the
\* window ends at the newest real timestamp whatever was rendered before.
C4_NoHiddenState ==
    Rendered =>
        LET fresh == RenderResult(chart, TheArea, FreshState(TheCursor))
        IN /\ written = fresh.written
           /\ out = fresh.out
           /\ (fresh.info # None => state.info = fresh.info)
           /\ ((TheCursor = None /\ out.outcome = "drawn") => out.chart_end = Some(LastReal))

\* a live render that draws, after a frame rendered with a pinned cursor
C4_Witness ==
    /\ Rendered
    /\ panned
    /\ TheCursor = None
    /\ out.outcome = "drawn"
    /\ DataCols > 1

-----------------------------------------------------------------------------
\* C5: every cell a render writes lies in the viewport rectangle, also when
\* more candles are processed than there are data columns.
C5_WritesInsideViewport ==
    Rendered =>
        \A cell \in DOMAIN written :
            /\ TheArea.x <= cell[1] /\ cell[1] < TheArea.x + TheArea.width
            /\ TheArea.y <= cell[2] /\ cell[2] < TheArea.y + TheArea.height

\* more candles processed than data columns, all axes drawn
C5_Witness ==
    /\ Rendered
    /\ out.outcome = "drawn"
    /\ Len(out.processed) > DataCols
    /\ chart.show_x_axis /\ chart.show_y_axis
    /\ CandleColumns # {}

-----------------------------------------------------------------------------
\* C6 (as claimed): a render with the cursor pinned strictly before the first
\* real timestamp leaves the published scrolled-past-start flag true, and after
\* a render that draws the flag is true exactly when the earliest timestamp of
\* the rendered set precedes the first real timestamp.
C6_PastStartFlag ==
    /\ (Rendered /\ out.outcome # "guard" /\ TheCursor # None /\ TheCursor[1] < FirstReal)
       => (state.info # None /\ state.info[1].scrolled_past_start)
    /\ (Rendered /\ out.outcome = "drawn")
       => (state.info[1].scrolled_past_start <=> (out.rendered[1].timestamp < FirstReal))

-----------------------------------------------------------------------------
\* C7 (as claimed): after a render that passes the guards, the published
\* earliest timestamp is the smallest timestamp of the rendered set.
C7_EarliestIsEarliestRendered ==
    (Rendered /\ out.outcome = "drawn")
    => /\ state.info # None
       /\ \A k \in 1..Len(out.rendered) :
              state.info[1].earliest_timestamp <= out.rendered[k].timestamp
       /\ \E k \in 1..Len(out.rendered) :
              state.info[1].earliest_timestamp = out.rendered[k].timestamp

\* C7 (amended): every render that publishes info (it passes the guards and
\* its rendered set is not empty) publishes as earliest timestamp the timestamp
\* of the first real candle of the series, wherever the window lies.
C7_EarliestIsFirstReal ==
    (Rendered /\ out.outcome # "guard" /\ out.rendered # <<>>)
    => /\ state.info # None
       /\ state.info[1].earliest_timestamp = FirstReal

\* a pinned render whose window starts after the first real candle
C7_Witness ==
    /\ Rendered
    /\ out.outcome = "drawn"
    /\ TheCursor # None
    /\ out.rendered[1].timestamp > FirstReal
    /\ state.info[1].earliest_timestamp = FirstReal

-----------------------------------------------------------------------------
\* one candle per interval at most: the timestamps lie whole intervals apart
OnIntervalGrid ==
    \A t \in RealTimestamps : (t - FirstReal) % (chart.interval * 1000) = 0

\* C8 (as claimed): in Fit mode a series with more real candles than the
\* viewport has data columns is squashed: consecutive groups of
\* ceil(count / columns) candles are merged, at most one per data column.
\* Stated for series with one candle per interval at most.
C8_SquashWhenSeriesExceedsColumns ==
    (Rendered /\ out.outcome = "drawn" /\ chart.fit_mode = "Fit" /\ OnIntervalGrid
        /\ Len(chart.candles) > DataCols)
    => LET count == Len(chart.candles)
           size == (count + DataCols - 1) \div DataCols
       IN /\ out.layout = "squash"
          /\ Len(out.processed) = (count + size - 1) \div size
          /\ Len(out.processed) <= DataCols

-----------------------------------------------------------------------------
\* the candles that are followed by a one-column space
SpacedGaps == {p \in 1..Len(out.space_positions) : out.space_positions[p]}

\* C9: in Fit mode with n real candles in the window, 1 <= n <= columns, every
\* candle is base = max(1, columns / n) columns wide, the columns - n * base
\* spaces follow distinct candles and never the last one, n * base + spaces =
\* columns, and the candles drawn end in the last data column.
C9_StretchFillsDataArea ==
    (Rendered /\ out.outcome = "drawn" /\ chart.fit_mode = "Fit"
        /\ Len(WindowReal) >= 1 /\ Len(WindowReal) <= DataCols)
    => LET n == Len(WindowReal)
           base == IF DataCols \div n >= 1 THEN DataCols \div n ELSE 1
       IN /\ out.processed = WindowReal
          /\ out.candle_width = base
          /\ out.extra_spaces = DataCols - n * base
          /\ Cardinality(SpacedGaps) = out.extra_spaces
          /\ n \notin SpacedGaps
          /\ n * base + Cardinality(SpacedGaps) = DataCols
          /\ Cardinality(CandleColumns) = n * base
          /\ \A col \in CandleColumns : 0 <= col /\ col < DataCols
          /\ (DataCols - 1) \in CandleColumns

\* a stretch with candles wider than one column and a space left to place
C9_Witness ==
    /\ Rendered
    /\ out.outcome = "drawn"
    /\ out.layout = "stretch"
    /\ out.candle_width > 1
    /\ out.extra_spaces > 0
    /\ Len(out.processed) > 1

-----------------------------------------------------------------------------
\* the consecutive groups of ceil(count / columns) real candles of the window
GroupSize == (Len(WindowReal) + DataCols - 1) \div DataCols
GroupFirst(g) == (g - 1) * GroupSize + 1
GroupLast(g) == IF g * GroupSize <= Len(WindowReal) THEN g * GroupSize ELSE Len(WindowReal)
GroupMembers(g) == {WindowReal[k] : k \in GroupFirst(g)..GroupLast(g)}

\* C10: each merged candle of a squash takes the open and the timestamp of the
\* first member of its group, the close of the last, the greatest high and the
\* least low of the members; groups and candles keep their order.
C10_SquashMerge ==
    (Rendered /\ out.layout = "squash")
    => /\ Len(out.processed) * GroupSize >= Len(WindowReal)
       /\ (Len(out.processed) - 1) * GroupSize < Len(WindowReal)
       /\ \A g \in 1..Len(out.processed) :
            LET merged == out.processed[g]
            IN /\ merged.timestamp = WindowReal[GroupFirst(g)].timestamp
               /\ merged.open = WindowReal[GroupFirst(g)].open
               /\ merged.close = WindowReal[GroupLast(g)].close
               /\ \E c \in GroupMembers(g) : merged.high = c.high
               /\ \A c \in GroupMembers(g) : merged.high >= c.high
               /\ \E c \in GroupMembers(g) : merged.low = c.low
               /\ \A c \in GroupMembers(g) : merged.low <= c.low
               /\ written[DataCell(g - 1, 0)].kind = "candle"
               /\ written[DataCell(g - 1, 0)].idx = g

\* a squash whose first group has a later member with the greater high
C10_Witness ==
    /\ Rendered
    /\ out.outcome = "drawn"
    /\ out.layout = "squash"
    /\ GroupSize > 1
    /\ out.processed[1].high > WindowReal[1].high

-----------------------------------------------------------------------------
\* every Candle::new of a merge pass returned Ok
AllOk(merged) == \A g \in DOMAIN merged : merged[g] # None

\* the candles of a merge pass whose Candle::new all returned Ok
Unwrapped(merged) == [g \in DOMAIN merged |-> merged[g][1]]

\* group sizes tried on a series of at most MaxCandles candles
GroupSizes == 1..MaxCandles

\* merging data in groups of k and the result in groups of k2 gives the candles
\* of merging data in groups of k * k2, and no merge fails
TwoPassesAsOne(data, k, k2) ==
    \E first \in {MergedCandles(data, k)} :
        /\ AllOk(first)
        /\ \E second \in {MergedCandles(Unwrapped(first), k2)} :
              /\ AllOk(second)
              /\ second = MergedCandles(data, k * k2)

\* C11: squash-merge is associative over grouping boundaries: for the valid
\* candles a Fit-mode render lays out (the real candles of its window), merging
\* consecutive groups of k and then the merged candles in consecutive groups of
\* k2 gives the same candles (timestamp, open, high, low, close) as merging
\* directly in groups of k * k2; in particular the candles a squashing render
\* drew, merged again in groups of k2, are the window's real candles merged in
\* groups of (its merge ratio) * k2.
C11_MergeAssociative ==
    /\ (Rendered /\ out.outcome = "drawn" /\ chart.fit_mode = "Fit")
       => \A k \in GroupSizes, k2 \in GroupSizes : TwoPassesAsOne(WindowReal, k, k2)
    /\ (Rendered /\ out.outcome = "drawn" /\ out.layout = "squash")
       => \A k2 \in GroupSizes :
             \E second \in {MergedCandles(out.processed, k2)} :
                /\ AllOk(second)
                /\ second = MergedCandles(WindowReal, GroupSize * k2)

\* a squashing render that drew two merged candles, the first from a group of two,
\* whose second pass has a last group shorter than the first and the greatest
\* high in it
C11_Witness ==
    /\ Rendered
    /\ out.outcome = "drawn"
    /\ out.layout = "squash"
    /\ GroupSize > 1
    /\ Len(out.processed) > 1
    /\ Len(WindowReal) < GroupSize * Len(out.processed)
    /\ out.processed[Len(out.processed)].high > out.processed[1].high

-----------------------------------------------------------------------------
\* C12 (as claimed): the numeric display policy set through y_axis_numeric is
\* used uniformly within a render: the y axis whose labels are drawn and whose
\* price-to-row mapping places the candles is built with the numeric that
\* sized the y-axis gutter.
C12_NumericUsedUniformly ==
    (Rendered /\ out.y_axis # None) => out.y_axis[1].numeric = chart.numeric

====
